---- MODULE Spec2Model ----
(***************************************************************************)
(* The request-dispatch chain of chain-of-responsibility/main.py.          *)
(*                                                                         *)
(* State: the handler instances the client has constructed, the successor  *)
(* reference (_next_handler) of each, and the last completed call with the *)
(* value it returned.  The program is single-threaded and synchronous, so  *)
(* each call of the public contract (a constructor, set_next, handle) is   *)
(* one action; the recursion inside handle is the recursive operator       *)
(* handle, which records every frame it enters (the receiver, the request  *)
(* it was given and the value it returned).                                *)
(***************************************************************************)
EXTENDS Integers, Sequences, FiniteSets, TLC

\* Number of handler instances the client constructs.
NumHandlers == 3

\* The interpreter's recursion limit, counted in handler frames and scaled
\* to the model: a dispatch that would nest deeper raises RecursionError.
RecursionLimit == 4

\* Python's None as a handler reference (handlers are 1..NumHandlers).
NoHandler == 0

\* Python's None as a return value of handle.
None == "None"

\* The exception a dispatch ends in when the recursion limit is exceeded.
RecursionError == "RecursionError"

\* The concrete handler classes, in the order they are defined.
Classes == <<"Monkey", "Squirrel", "Dog">>

\* How many of the classes a client instantiates.
Kinds == {2, 3}

\* The value each concrete class compares the request with.
Trigger(c) ==
    CASE c = "Monkey" -> "Banana"
      [] c = "Squirrel" -> "Nut"
      [] c = "Dog" -> "MeatBall"

\* The request values the client passes: the three triggers, the driver's
\* unmatched sample, the empty string, and strings that differ from a
\* trigger in case or in surrounding whitespace only.
Requests ==
    {"Banana", "Nut", "MeatBall", "Cup of coffee", "", "banana", " Nut "}

VARIABLES
    kinds,          \* the client instantiates the first `kinds` classes
    constructed,    \* handlers 1..constructed exist
    next_handler,   \* next_handler[h]: h._next_handler (NoHandler: None)
    last            \* the last completed call and what it returned (for
                    \* set_next also the successor it overwrote)

vars == <<kinds, constructed, next_handler, last>>

\* client_code of chain-of-responsibility/main.py
VARIABLES
    pc,             \* where the driver is: "main" (client_code not entered),
                    \* "ask", "call", "report", "done", or "raised"
    client_handler, \* client_code's argument
    food_index,     \* the position of the for loop in the list of foods
    result,         \* the local variable result
    stdout          \* the texts written by print, one per call

driverVars == <<pc, client_handler, food_index, result, stdout>>

\* iterator/main.py
VARIABLES
    collection,     \* the WordCollection's list, _collection
    iterators,      \* the iterators created so far, in the order of their
                    \* creation: _reverse, _sorted_items (empty while it
                    \* is None, which has_sorted_items tells) and _position
                    \* of each, and the length the list had when the
                    \* iterator was created (born)
    it_last         \* the last completed call on the collection or on an
                    \* iterator, and what it returned or raised

iterVars == <<collection, iterators, it_last>>

allVars == <<vars, driverVars, iterVars>>

\* The driver is not running.
DriverIdle ==
    /\ pc = "main"
    /\ client_handler = NoHandler
    /\ food_index = 0
    /\ result = None
    /\ stdout = <<>>

\* No collection is in use.
IterIdle ==
    /\ collection = <<>>
    /\ iterators = <<>>
    /\ it_last = [op |-> "start"]

\* No handler is in use.
ChainIdle ==
    /\ kinds = 3
    /\ constructed = 0
    /\ next_handler = [h \in 1..NumHandlers |-> NoHandler]
    /\ last = [op |-> "start"]

\* The class of the h-th handler the client constructs: it goes through the
\* classes it instantiates in turn (with all three: a monkey, a squirrel and
\* a dog, as the driver does, and then round again).
ClassOf(h) == Classes[((h - 1) % kinds) + 1]

Handlers == 1..NumHandlers

Alive == 1..constructed

----------------------------------------------------------------------------
(* set_next *)

\* A set_next that keeps the successor a handler already has.
SetNextLinks_KeepFirst(self, handler) ==
    [next_handler EXCEPT ![self] = IF @ = NoHandler THEN handler ELSE @]

\* A set_next that assigns the class attribute, which every instance
\* reads: type(self)._next_handler = handler.
SetNextLinks_ClassLevel(self, handler) == [g \in 1..NumHandlers |-> handler]

\* A set_next that links the wrong way round.
SetNextLinks_Reversed(self, handler) == [next_handler EXCEPT ![handler] = self]

\* self._next_handler = handler
SetNextLinks(self, handler) == [next_handler EXCEPT ![self] = handler]

\* A set_next that returns its receiver, as fluent setters often do.
SetNextReturn_Self(self, handler) == self

\* return handler
SetNextReturn(self, handler) == handler

----------------------------------------------------------------------------
(* handle *)

\* The outcome of a frame that returns v without calling further.
Return(v) == [value |-> v, raised |-> FALSE, calls |-> <<>>]

\* The outcome of a call the interpreter refuses: nothing is returned.
Raise == [value |-> RecursionError, raised |-> TRUE, calls |-> <<>>]

\* A handler that tidies the request up before passing it on.
Forwarded_Stripped(request) == IF request = " Nut " THEN "Nut" ELSE request

\* The request a handler passes on to its successor.
Forwarded(request) == request

\* A delegating frame that calls its successor and forgets to return
\* what it answered.
Delegated_NoReturn(r) == IF r.raised THEN r ELSE [r EXCEPT !.value = None]

\* A delegating frame that reports that the answer was passed on.
Delegated_Wrapped(r) ==
    IF r.raised \/ r.value = None
    THEN r
    ELSE [r EXCEPT !.value = "via: " \o @]

\* What a delegating frame does with the outcome r of its successor's
\* handle: return self._next_handler.handle(request).
Delegated(r) == r

\* The text a concrete handler answers with.
Acknowledgment(name, request) == name \o ": I'll eat the " \o request

RECURSIVE handle(_, _, _)

\* A base handler that, at the end of the chain, falls back on a handler
\* that links to it.
AbstractHandler_handle_Backwards(self, request, depth) ==
    IF next_handler[self] # NoHandler
    THEN handle(next_handler[self], request, depth + 1)
    ELSE IF \E p \in 1..constructed : p # self /\ next_handler[p] = self
         THEN handle(CHOOSE p \in 1..constructed :
                         p # self /\ next_handler[p] = self,
                     request, depth + 1)
         ELSE Return(None)

\* A base handler that passes the request to the successor of its
\* successor.
AbstractHandler_handle_SkipOne(self, request, depth) ==
    IF next_handler[self] # NoHandler
    THEN IF next_handler[next_handler[self]] # NoHandler
         THEN handle(next_handler[next_handler[self]], request, depth + 1)
         ELSE Return(None)
    ELSE Return(None)

\* A base handler that calls itself instead of its successor.
AbstractHandler_handle_SelfCall(self, request, depth) ==
    IF next_handler[self] # NoHandler
    THEN handle(self, request, depth + 1)
    ELSE Return(None)

\* AbstractHandler.handle, reached through super().handle(request).
AbstractHandler_handle(self, request, depth) ==
    IF next_handler[self] # NoHandler
    THEN Delegated(handle(next_handler[self], Forwarded(request), depth + 1))
    ELSE Return(None)

\* A monkey that asks its successor first and answers only when the rest
\* of the chain left the request untouched.
MonkeyHandler_handle_SuccessorFirst(self, request, depth) ==
    LET r == AbstractHandler_handle(self, request, depth)
    IN  IF request = "Banana" /\ r.value = None
        THEN [r EXCEPT !.value = Acknowledgment("Monkey", request)]
        ELSE r

MonkeyHandler_handle(self, request, depth) ==
    IF request = "Banana"
    THEN Return(Acknowledgment("Monkey", request))
    ELSE AbstractHandler_handle(self, request, depth)

\* A squirrel that is full once the call before fed it.
SquirrelHandler_handle_Sated(self, request, depth) ==
    IF request = "Nut"
       /\ ~(last.op = "handle" /\ last.ret = "Squirrel: I'll eat the Nut")
    THEN Return(Acknowledgment("Squirrel", request))
    ELSE AbstractHandler_handle(self, request, depth)

\* A squirrel that ignores surrounding whitespace.
SquirrelHandler_handle_Trimmed(self, request, depth) ==
    IF request \in {"Nut", " Nut "}
    THEN Return(Acknowledgment("Squirrel", request))
    ELSE AbstractHandler_handle(self, request, depth)

SquirrelHandler_handle(self, request, depth) ==
    IF request = "Nut"
    THEN Return(Acknowledgment("Squirrel", request))
    ELSE AbstractHandler_handle(self, request, depth)

DogHandler_handle(self, request, depth) ==
    IF request = "MeatBall"
    THEN Return(Acknowledgment("Dog", request))
    ELSE AbstractHandler_handle(self, request, depth)

\* The outcome r of a frame, with the frame recorded in front of the
\* frames it called.
Framed(self, request, r) ==
    [r EXCEPT !.calls =
        <<[self |-> self, request |-> request, ret |-> r.value]>> \o @]

\* The element of a one-element set.
The(S) == CHOOSE x \in S : TRUE

\* self.handle(request), the depth-th nested handle call of a dispatch:
\* dynamic dispatch on the receiver's class.  (The set binds the outcome of
\* the method once, however often Framed reads it.)
handle(self, request, depth) ==
    IF depth > RecursionLimit
    THEN Raise
    ELSE The({Framed(self, request, r) : r \in
                {CASE ClassOf(self) = "Monkey" ->
                        MonkeyHandler_handle(self, request, depth)
                   [] ClassOf(self) = "Squirrel" ->
                        SquirrelHandler_handle(self, request, depth)
                   [] ClassOf(self) = "Dog" ->
                        DogHandler_handle(self, request, depth)}})

----------------------------------------------------------------------------
(* The client's calls *)

Init ==
    /\ kinds \in Kinds
    /\ constructed = 0
    /\ next_handler = [h \in Handlers |-> NoHandler]
    /\ last = [op |-> "start"]
    /\ DriverIdle
    /\ IterIdle

\* MonkeyHandler(), SquirrelHandler() or DogHandler(): no __init__ runs and
\* nothing is assigned.  The new instance has no _next_handler of its own
\* and reads the class attribute, which is what next_handler holds for a
\* handler that no set_next was called on (None since Init).
Construct ==
    /\ constructed < NumHandlers
    /\ constructed' = constructed + 1
    /\ last' = [op |-> "construct", ret |-> constructed + 1]
    /\ UNCHANGED <<kinds, next_handler>>
    /\ UNCHANGED <<driverVars, iterVars>>

\* self.set_next(handler)
SetNext(self, handler) ==
    /\ next_handler' = SetNextLinks(self, handler)
    /\ last' = [op |-> "set_next", self |-> self, handler |-> handler,
                old |-> next_handler[self],
                ret |-> SetNextReturn(self, handler)]
    /\ UNCHANGED <<kinds, constructed>>
    /\ UNCHANGED <<driverVars, iterVars>>

\* self.handle(request), called by the client
Handle(self, request) ==
    /\ LET r == handle(self, request, 1)
       IN  last' = [op |-> "handle", self |-> self, request |-> request,
                    ret |-> r.value, raised |-> r.raised, calls |-> r.calls]
    /\ UNCHANGED <<kinds, constructed, next_handler>>
    /\ UNCHANGED <<driverVars, iterVars>>

Next ==
    \/ Construct
    \/ \E self \in Alive, handler \in Alive : SetNext(self, handler)
    \/ \E self \in Alive, request \in Requests : Handle(self, request)

----------------------------------------------------------------------------
(* client_code: the demonstration driver *)

\* for food in ["Nut", "Banana", "Cup of coffee"]
Foods == <<"Nut", "Banana", "Cup of coffee">>

\* print(f"\nClient: Who wants a {food}?"), with print's line end
QuestionLine(food) == "\nClient: Who wants a " \o food \o "?" \o "\n"

\* if result: an object is true unless it is None or empty
Truthy(v) == v # None /\ v # ""

\* A driver that prints whatever handle returned.
OutcomeText_Unchecked(v, food) == " " \o v

\* The text of the print call after handle returned v (end="").
OutcomeText(v, food) ==
    IF Truthy(v)
    THEN " " \o v
    ELSE " " \o food \o " was left untouched."

\* client_code(handler) is entered, the handlers constructed and linked by
\* set_next calls in whatever way.
DriverInit ==
    /\ kinds \in Kinds
    /\ constructed = NumHandlers
    /\ next_handler \in [Handlers -> Handlers \cup {NoHandler}]
    /\ last = [op |-> "start"]
    /\ pc = "ask"
    /\ client_handler \in Handlers
    /\ food_index = 1
    /\ result = None
    /\ stdout = <<>>
    /\ IterIdle

\* print(f"\nClient: Who wants a {food}?")
Ask ==
    /\ pc = "ask"
    /\ stdout' = Append(stdout, QuestionLine(Foods[food_index]))
    /\ pc' = "call"
    /\ UNCHANGED <<client_handler, food_index, result>>
    /\ UNCHANGED <<vars, iterVars>>

\* result = handler.handle(food); a RecursionError is not caught and ends
\* the driver.
Call ==
    /\ pc = "call"
    /\ LET r == handle(client_handler, Foods[food_index], 1)
       IN  IF r.raised
           THEN pc' = "raised" /\ UNCHANGED result
           ELSE pc' = "report" /\ result' = r.value
    /\ UNCHANGED <<client_handler, food_index, stdout>>
    /\ UNCHANGED <<vars, iterVars>>

\* if result: print(f" {result}", end="")
\* else: print(f" {food} was left untouched.", end=""), and the next food
Report ==
    /\ pc = "report"
    /\ stdout' = Append(stdout, OutcomeText(result, Foods[food_index]))
    /\ food_index' = food_index + 1
    /\ pc' = IF food_index = Len(Foods) THEN "done" ELSE "ask"
    /\ UNCHANGED <<client_handler, result>>
    /\ UNCHANGED <<vars, iterVars>>

DriverNext ==
    \/ Ask
    \/ Call
    \/ Report

----------------------------------------------------------------------------
(* iterator/main.py: WordCollection and AlphabeticalOrderIterator *)

\* The client adds at most MaxItems items and creates at most NumIterators
\* iterators.
MaxItems == 2
NumIterators == 2

\* The items the client adds, the first two of the driver's:
\* collection.add_item("B"), collection.add_item("A")
Words == {"A", "B"}

\* sorted compares strings by the code points of their characters.
CodePoint(w) ==
    CASE w = "A" -> 65
      [] w = "B" -> 66

StopIteration == "StopIteration"

\* s with w put behind every item that is not greater.
Insert(s, w) ==
    LET k == Cardinality({i \in 1..Len(s) : CodePoint(s[i]) <= CodePoint(w)})
    IN  SubSeq(s, 1, k) \o <<w>> \o SubSeq(s, k + 1, Len(s))

RECURSIVE sorted(_)

\* A sort that leaves the list as it is.
sorted_Unordered(s) == s

\* sorted(list): a new list, ascending, equal items in their old order
sorted(s) ==
    IF s = <<>>
    THEN <<>>
    ELSE Insert(sorted(SubSeq(s, 1, Len(s) - 1)), s[Len(s)])

\* list(reversed(list))
reversed(s) == [i \in 1..Len(s) |-> s[Len(s) + 1 - i]]

\* AlphabeticalOrderIterator(collection, reverse): __init__
AlphabeticalOrderIterator(reverse) ==
    [reverse |-> reverse, has_sorted_items |-> FALSE, sorted_items |-> <<>>,
     position |-> 0, born |-> Len(collection)]

\* An iterator that sorts the list again on every call.
SortedItems_EveryCall(self) ==
    IF self.reverse THEN reversed(sorted(collection)) ELSE sorted(collection)

\* if self._sorted_items is None: sort, and reverse if self._reverse; the
\* value of self._sorted_items after these lines
SortedItems(self) ==
    IF ~self.has_sorted_items
    THEN IF self.reverse
         THEN reversed(sorted(collection))
         ELSE sorted(collection)
    ELSE self.sorted_items

\* An iterator that starts again when it is called at the end.
Stopped_Rewind(k, items) ==
    [iterators EXCEPT ![k].has_sorted_items = TRUE,
                      ![k].sorted_items = items,
                      ![k].position = 0]

\* The iterators after iterator k raised StopIteration.
Stopped(k, items) ==
    [iterators EXCEPT ![k].has_sorted_items = TRUE,
                      ![k].sorted_items = items]

\* Iterators that keep their sorted items in one place.
Advanced_SharedItems(k, items) ==
    [j \in 1..Len(iterators) |->
        [iterators[j] EXCEPT !.has_sorted_items = TRUE,
                             !.sorted_items = items,
                             !.position = IF j = k THEN @ + 1 ELSE @]]

\* The iterators after iterator k returned an item: self._position += 1
Advanced(k, items) ==
    [iterators EXCEPT ![k].has_sorted_items = TRUE,
                      ![k].sorted_items = items,
                      ![k].position = @ + 1]

\* collection = WordCollection(): an empty list, no iterator yet
IterInit ==
    /\ collection = <<>>
    /\ iterators = <<>>
    /\ it_last = [op |-> "start"]
    /\ ChainIdle
    /\ DriverIdle

\* collection.__iter__()
Iter ==
    /\ Len(iterators) < NumIterators
    /\ iterators' = Append(iterators, AlphabeticalOrderIterator(FALSE))
    /\ it_last' = [op |-> "__iter__", ret |-> Len(iterators) + 1]
    /\ UNCHANGED collection
    /\ UNCHANGED <<vars, driverVars>>

\* collection.get_reverse_iterator()
GetReverseIterator ==
    /\ Len(iterators) < NumIterators
    /\ iterators' = Append(iterators, AlphabeticalOrderIterator(TRUE))
    /\ it_last' = [op |-> "get_reverse_iterator", ret |-> Len(iterators) + 1]
    /\ UNCHANGED collection
    /\ UNCHANGED <<vars, driverVars>>

\* collection.add_item(item)
AddItem(item) ==
    /\ Len(collection) < MaxItems
    /\ collection' = Append(collection, item)
    /\ it_last' = [op |-> "add_item", item |-> item]
    /\ UNCHANGED iterators
    /\ UNCHANGED <<vars, driverVars>>

\* next(iterator k): AlphabeticalOrderIterator.__next__
IterNext(k) ==
    /\ LET self == iterators[k]
           items == SortedItems(self)
       IN  IF self.position >= Len(items)
           THEN /\ iterators' = Stopped(k, items)
                /\ it_last' = [op |-> "__next__", it |-> k, raised |-> TRUE,
                               ret |-> StopIteration]
           ELSE /\ iterators' = Advanced(k, items)
                /\ it_last' = [op |-> "__next__", it |-> k, raised |-> FALSE,
                               ret |-> items[self.position + 1]]
    /\ UNCHANGED collection
    /\ UNCHANGED <<vars, driverVars>>

IterNextStep ==
    \/ Iter
    \/ GetReverseIterator
    \/ \E item \in Words : AddItem(item)
    \/ \E k \in 1..Len(iterators) : IterNext(k)

----------------------------------------------------------------------------
(* Specifications *)

Spec == Init /\ [][Next]_allVars

\* The driver's loop over a chain already built.
SpecDriver == DriverInit /\ [][DriverNext]_allVars

\* The client's calls on one WordCollection and its iterators.
SpecIter == IterInit /\ [][IterNextStep]_allVars

----------------------------------------------------------------------------
(* Successor links, read off the state *)

RECURSIVE Walk(_, _)

\* The handlers met by following _next_handler from h, each once, until the
\* reference is None or leads back to a handler already met.
Walk(h, seen) ==
    IF h = NoHandler \/ h \in seen
    THEN <<>>
    ELSE <<h>> \o Walk(next_handler[h], seen \cup {h})

\* The handlers reachable from e (e first), in link order.
LinkOrder(e) == Walk(e, {})

Reachable(e) == {LinkOrder(e)[i] : i \in DOMAIN LinkOrder(e)}

\* The walk from e ends at a handler whose successor is absent: no handler
\* reachable from e lies on a cycle.
EndsAtNone(e) == next_handler[LinkOrder(e)[Len(LinkOrder(e))]] = NoHandler

\* The positions of LinkOrder(e) whose handler's trigger is the request.
Matching(e, request) ==
    {i \in DOMAIN LinkOrder(e) : Trigger(ClassOf(LinkOrder(e)[i])) = request}

Min(S) == CHOOSE i \in S : \A j \in S : i <= j

Acknowledgments ==
    {"Monkey: I'll eat the Banana", "Squirrel: I'll eat the Nut",
     "Dog: I'll eat the MeatBall"}

----------------------------------------------------------------------------
(* Properties *)

\* C1: when some handler reachable from the entry handler has the request
\* as its trigger, handle returns the acknowledgment of the first such
\* handler in link order, "<its name>: I'll eat the <request>", and exactly
\* one consulted handler (the last one) claimed the request.
C1_FirstMatchAcknowledges ==
    (last.op = "handle" /\ Matching(last.self, last.request) # {}) =>
        LET i == Min(Matching(last.self, last.request))
            H == LinkOrder(last.self)[i]
        IN  /\ ~last.raised
            /\ last.ret = ClassOf(H) \o ": I'll eat the " \o last.request
            /\ last.ret \in Acknowledgments
            /\ Len(last.calls) = i
            /\ last.calls[i].self = H
            /\ Cardinality({k \in DOMAIN last.calls :
                   Trigger(ClassOf(last.calls[k].self)) = last.request}) = 1

\* A dispatch delegated past the entry handler to the first of two monkeys.
C1_Witness ==
    /\ last.op = "handle"
    /\ last.request = "Banana"
    /\ last.ret = "Monkey: I'll eat the Banana"
    /\ Len(last.calls) = 2
    /\ Cardinality(Matching(last.self, last.request)) = 2

\* C2: on a chain (the walk from the entry handler ends at a handler with
\* no successor), a request that is the trigger of no reachable handler,
\* the empty string and near-misses of a trigger included, returns None
\* after every reachable handler was asked; a handler with no match and no
\* successor returns None.
C2_UnmatchedReturnsNone ==
    (/\ last.op = "handle"
     /\ EndsAtNone(last.self)
     /\ Matching(last.self, last.request) = {}) =>
        /\ ~last.raised
        /\ last.ret = None
        /\ Len(last.calls) = Len(LinkOrder(last.self))

\* " Nut " was offered to a chain of three with a squirrel in it and was
\* left untouched.
C2_Witness ==
    /\ last.op = "handle"
    /\ last.request = " Nut "
    /\ \E h \in Reachable(last.self) : ClassOf(h) = "Squirrel"
    /\ Len(last.calls) = 3
    /\ last.ret = None

\* C3 as claimed: every handle call returns an acknowledgment or None,
\* whatever links set_next calls have produced.
C3_AlwaysReturns ==
    last.op = "handle" =>
        (~last.raised /\ last.ret \in Acknowledgments \cup {None})

\* C3, amended: a handle call ends in RecursionError exactly when the
\* request matches no reachable handler and the walk from the entry handler
\* runs into a cycle; every other call returns an acknowledgment or None
\* after consulting each handler at most once.
C3_ReturnsUnlessCycle ==
    last.op = "handle" =>
        /\ last.raised <=>
               (~EndsAtNone(last.self)
                /\ Matching(last.self, last.request) = {})
        /\ ~last.raised =>
               /\ last.ret \in Acknowledgments \cup {None}
               /\ Len(last.calls) <= Len(LinkOrder(last.self))

\* An unmatched request went through a chain of three and came back.
C3_Witness ==
    /\ last.op = "handle"
    /\ last.request = "Cup of coffee"
    /\ EndsAtNone(last.self)
    /\ Len(last.calls) = 3
    /\ ~last.raised

\* No handler lies on a cycle of successor links.
Acyclic == \A h \in Alive : EndsAtNone(h)

\* C4 as claimed: the successor links never contain a cycle.
C4_NeverCyclic == Acyclic

\* The call just made was set_next(handler) on a receiver that is handler
\* itself or was reachable from it.
ClosingSetNext ==
    /\ last'.op = "set_next"
    /\ last'.self \in Reachable(last'.handler)

\* C4, amended: the links are acyclic at the start, and every call other
\* than a set_next that passes the receiver itself or a handler from which
\* the receiver is reachable leaves acyclic links acyclic.
C4_AcyclicUnlessClosed ==
    Acyclic /\ [][(Acyclic /\ ~ClosingSetNext) => Acyclic']_vars

\* The driver's chain of three, built by set_next calls.
C4_Witness ==
    /\ last.op = "set_next"
    /\ Acyclic
    /\ \E h \in Alive : Len(LinkOrder(h)) = 3

\* The handlers that precede N: N is reachable from them, not they from N.
Preceding(N) ==
    {p \in Alive : N \in Reachable(p) /\ p \notin Reachable(N)}

\* The handlers a dispatch consulted.
Consulted(calls) == {calls[k].self : k \in DOMAIN calls}

\* C5: a dispatch entered at handler N consults N first and then only
\* handlers reachable from N, never one that precedes N; a request whose
\* only matching handlers precede N comes back None.
C5_SubChainOnly ==
    last.op = "handle" =>
        /\ last.calls[1].self = last.self
        /\ Consulted(last.calls) \subseteq Reachable(last.self)
        /\ Consulted(last.calls) \cap Preceding(last.self) = {}
        /\ (/\ \E p \in Preceding(last.self) :
                   Trigger(ClassOf(p)) = last.request
            /\ Matching(last.self, last.request) = {}
            /\ EndsAtNone(last.self)) => last.ret = None

\* Monkey > Squirrel > Dog, and "Banana" dispatched to the squirrel.
C5_Witness ==
    /\ kinds = 3
    /\ next_handler = <<2, 3, 0>>
    /\ last.op = "handle"
    /\ last.self = 2
    /\ last.request = "Banana"
    /\ last.ret = None

\* C6: set_next overwrites: after h.set_next(s2) the successor of h is s2
\* whatever it was before; a dispatch passes from each handler to the
\* successor that handler has now, and the dispatch that follows an
\* overwriting set_next goes from h to s2 and consults neither the
\* overwritten successor s1 nor anything reachable through s1 alone.
C6_LastWriteWins ==
    [][/\ last'.op = "set_next" =>
              /\ last'.old = next_handler[last'.self]
              /\ next_handler'[last'.self] = last'.handler
       /\ last'.op = "handle" =>
              \A k \in 1..(Len(last'.calls) - 1) :
                  last'.calls[k + 1].self =
                      next_handler'[last'.calls[k].self]
       /\ (last.op = "set_next" /\ last'.op = "handle") =>
              /\ \A k \in 1..(Len(last'.calls) - 1) :
                     last'.calls[k].self = last.self =>
                         last'.calls[k + 1].self = last.handler
              /\ \A g \in Reachable(last.old) :
                     g \notin Reachable(last'.self) =>
                         g \notin Consulted(last'.calls)
      ]_vars

\* A set_next that replaced one successor by another.
C6_Witness ==
    /\ last.op = "set_next"
    /\ last.old # NoHandler
    /\ last.old # last.handler
    /\ next_handler[last.self] = last.handler

\* C7: set_next returns its argument, so when a second set_next is called
\* on what the first returned, a.set_next(b).set_next(c), the first call
\* has linked a to b and the second links b to c, never a; c keeps the
\* successor it had.
C7_FluentSetNext ==
    [][/\ last'.op = "set_next" => last'.ret = last'.handler
       /\ (/\ last.op = "set_next"
           /\ last'.op = "set_next"
           /\ last'.self = last.ret) =>
              /\ next_handler'[last.handler] = last'.handler
              /\ last.self # last.handler =>
                     /\ next_handler'[last.self] = last.handler
                     /\ next_handler[last.self] = last.handler
              /\ last'.handler # last.handler =>
                     next_handler'[last'.handler] =
                         next_handler[last'.handler]
      ]_vars

\* monkey.set_next(squirrel).set_next(dog), just evaluated.
C7_Witness ==
    /\ kinds = 3
    /\ last.op = "set_next"
    /\ last.self = 2
    /\ last.handler = 3
    /\ last.old = NoHandler
    /\ next_handler = <<2, 3, 0>>

\* C8: a handle call leaves every successor link and the set of handlers
\* as they were, and every handler it consults is given the request the
\* client passed in.
C8_HandleChangesNothing ==
    [][last'.op = "handle" =>
           /\ next_handler' = next_handler
           /\ constructed' = constructed
           /\ kinds' = kinds
           /\ \A k \in DOMAIN last'.calls :
                  last'.calls[k].request = last'.request
      ]_vars

\* " Nut " went down a chain of three unchanged.
C8_Witness ==
    /\ last.op = "handle"
    /\ last.request = " Nut "
    /\ Len(last.calls) = 3
    /\ last.calls[3].request = " Nut "
    /\ EndsAtNone(last.self)

C10_FullDelegation ==
    (last.op = "handle" /\ ~last.raised) =>
        /\ \A k \in 1..(Len(last.calls) - 1) :
               last.calls[k].ret = last.calls[k + 1].ret
        /\ last.calls[1].ret = last.ret
        /\ \A k \in DOMAIN last.calls :
               handle(last.calls[k].self, last.request, 1).value = last.ret

\* "Nut" given to the monkey, answered by the squirrel behind it.
C10_Witness ==
    /\ last.op = "handle"
    /\ last.request = "Nut"
    /\ ClassOf(last.self) = "Monkey"
    /\ Len(last.calls) = 2
    /\ last.calls[2].ret = "Squirrel: I'll eat the Nut"
    /\ last.ret = "Squirrel: I'll eat the Nut"

\* C12: a dispatch consults the entry handler first and moves from a
\* handler to its successor exactly when that handler's trigger is not the
\* request; it stops at the first handler whose trigger is the request or
\* at the end of the chain.  When it returns, the handlers consulted are the
\* first handlers of the link order from the entry, each once, and a
\* handler behind the first match is not consulted, whatever its trigger.
C12_ConsultedInLinkOrder ==
    last.op = "handle" =>
        LET c == last.calls
            n == Len(c)
        IN  /\ n >= 1
            /\ c[1].self = last.self
            /\ \A k \in 1..(n - 1) :
                   /\ Trigger(ClassOf(c[k].self)) # last.request
                   /\ c[k + 1].self = next_handler[c[k].self]
            /\ ~last.raised =>
                   /\ \/ Trigger(ClassOf(c[n].self)) = last.request
                      \/ next_handler[c[n].self] = NoHandler
                   /\ n <= Len(LinkOrder(last.self))
                   /\ \A k \in 1..n : c[k].self = LinkOrder(last.self)[k]
                   /\ \A j, k \in 1..n : c[j].self = c[k].self => j = k
            /\ Trigger(ClassOf(c[n].self)) = last.request =>
                   /\ ~last.raised
                   /\ n = Min(Matching(last.self, last.request))

\* Two monkeys in a row: the first answered and the second was not asked.
C12_Witness ==
    /\ last.op = "handle"
    /\ last.request = "Banana"
    /\ ClassOf(last.self) = "Monkey"
    /\ Len(last.calls) = 1
    /\ next_handler[last.self] # NoHandler
    /\ next_handler[last.self] # last.self
    /\ ClassOf(next_handler[last.self]) = "Monkey"

\* C13: the successor reference belongs to the instance: a handler just
\* constructed has no successor whatever set_next calls came before, a
\* constructor changes no handler's successor, and set_next changes the
\* successor of its receiver only, also among instances of one class.
C13_SuccessorPerInstance ==
    [][/\ last'.op = "construct" =>
              /\ next_handler'[last'.ret] = NoHandler
              /\ \A g \in Alive : next_handler'[g] = next_handler[g]
       /\ last'.op = "set_next" =>
              \A g \in Handlers \ {last'.self} :
                  next_handler'[g] = next_handler[g]
      ]_vars

\* A second monkey was constructed after the first had got a successor.
C13_Witness ==
    /\ last.op = "construct"
    /\ next_handler[last.ret] = NoHandler
    /\ \E g \in Alive :
           /\ g # last.ret
           /\ ClassOf(g) = ClassOf(last.ret)
           /\ next_handler[g] # NoHandler

\* The handlers other than p whose successor is the successor of p.
SharingWith(p) ==
    {q \in Alive \ {p} : next_handler[q] = next_handler[p]}

\* C14: when the successor s of the entry handler p is also the successor
\* of another handler q, a request that p does not match gets through p
\* what dispatching it directly to s gives, and the same through q unless q
\* matches it.
C14_SharedSuccessor ==
    (/\ last.op = "handle"
     /\ next_handler[last.self] # NoHandler
     /\ SharingWith(last.self) # {}
     /\ Trigger(ClassOf(last.self)) # last.request) =>
        /\ Len(last.calls) >= 2
        /\ last.calls[2].self = next_handler[last.self]
        /\ last.ret = handle(next_handler[last.self], last.request, 1).value
        /\ \A q \in SharingWith(last.self) :
               Trigger(ClassOf(q)) # last.request =>
                   handle(q, last.request, 1).value = last.ret

\* A monkey and a squirrel both link to the dog, and "MeatBall" went
\* through the monkey.
C14_Witness ==
    /\ kinds = 3
    /\ next_handler = <<3, 3, 0>>
    /\ last.op = "handle"
    /\ last.self = 1
    /\ last.request = "MeatBall"
    /\ last.ret = "Dog: I'll eat the MeatBall"

\* What the driver prints for a food that the chain from its handler
\* answers or leaves alone.
ExpectedOutcome(food) ==
    IF Matching(client_handler, food) = {}
    THEN " " \o food \o " was left untouched."
    ELSE " " \o ClassOf(LinkOrder(client_handler)[
                    Min(Matching(client_handler, food))])
             \o ": I'll eat the " \o food

\* C11: for "Nut", "Banana", "Cup of coffee" in this order the driver
\* prints the question and then one outcome, the acknowledgment if handle
\* returned one and "<food> was left untouched." otherwise; on Monkey >
\* Squirrel > Dog it prints the squirrel's and the monkey's acknowledgment
\* and one untouched line when entered at the monkey, and the squirrel's
\* acknowledgment and two untouched lines when entered at the squirrel.
\* On a chain (no cycle) it always gets to the end.
C11_DriverOutput ==
    /\ Len(stdout) = 2 * (food_index - 1)
                       + (IF pc \in {"call", "report", "raised"}
                          THEN 1 ELSE 0)
    /\ \A i \in 1..Len(Foods) :
           /\ 2 * i - 1 <= Len(stdout) =>
                  stdout[2 * i - 1] = QuestionLine(Foods[i])
           /\ 2 * i <= Len(stdout) =>
                  stdout[2 * i] = ExpectedOutcome(Foods[i])
    /\ pc = "raised" => ~EndsAtNone(client_handler)
    /\ pc = "done" => Len(stdout) = 2 * Len(Foods)
    /\ (pc = "done" /\ kinds = 3 /\ next_handler = <<2, 3, 0>>) =>
           /\ client_handler = 1 =>
                  stdout = <<"\nClient: Who wants a Nut?\n",
                             " Squirrel: I'll eat the Nut",
                             "\nClient: Who wants a Banana?\n",
                             " Monkey: I'll eat the Banana",
                             "\nClient: Who wants a Cup of coffee?\n",
                             " Cup of coffee was left untouched.">>
           /\ client_handler = 2 =>
                  stdout = <<"\nClient: Who wants a Nut?\n",
                             " Squirrel: I'll eat the Nut",
                             "\nClient: Who wants a Banana?\n",
                             " Banana was left untouched.",
                             "\nClient: Who wants a Cup of coffee?\n",
                             " Cup of coffee was left untouched.">>

\* client_code(squirrel) on Monkey > Squirrel > Dog has printed its last
\* line.
C11_Witness ==
    /\ pc = "done"
    /\ kinds = 3
    /\ next_handler = <<2, 3, 0>>
    /\ client_handler = 2
    /\ stdout[4] = " Banana was left untouched."

\* How often w occurs in s.
Count(s, w) == Cardinality({i \in 1..Len(s) : s[i] = w})

\* s holds the items of t, each as often as t does.
SameItems(s, t) == \A w \in Words : Count(s, w) = Count(t, w)

Ascending(s) ==
    \A i, j \in 1..Len(s) : i < j => CodePoint(s[i]) <= CodePoint(s[j])

\* The iterators whose first __next__ call has been made.
Started == {k \in 1..Len(iterators) : iterators[k].has_sorted_items}

\* Iterator k has been called until it raised StopIteration.
Traversed(k) ==
    /\ k \in Started
    /\ iterators[k].position = Len(iterators[k].sorted_items)
    /\ it_last.op = "__next__"
    /\ it_last.it = k
    /\ it_last.raised

\* C15: the first __next__ call of an iterator fixes what it yields: the
\* items the collection holds at that call, each as often as it occurs,
\* ascending for an iterator from __iter__ and in the reverse of that order
\* for one from get_reverse_iterator.  Each call that returns yields the
\* next item of that order, so that the calls up to StopIteration yield all
\* of it.
C15_SortedTraversal ==
    /\ [](\A k \in Started :
             LET self == iterators[k]
             IN  /\ SameItems(self.sorted_items,
                              SubSeq(collection, 1, Len(self.sorted_items)))
                 /\ IF self.reverse
                    THEN Ascending(reversed(self.sorted_items))
                    ELSE Ascending(self.sorted_items))
    /\ [][\A k \in 1..Len(iterators) :
             LET self == iterators[k]
             IN  /\ (k \notin Started /\ iterators'[k].has_sorted_items) =>
                        /\ Len(iterators'[k].sorted_items) = Len(collection)
                        /\ SameItems(iterators'[k].sorted_items, collection)
                 /\ iterators'[k].position # self.position =>
                        /\ iterators'[k].position = self.position + 1
                        /\ it_last' = [op |-> "__next__", it |-> k,
                                       raised |-> FALSE,
                                       ret |-> iterators'[k].sorted_items[
                                                   self.position + 1]]
                 /\ (it_last'.op = "__next__" /\ it_last'.it = k
                        /\ ~it_last'.raised) =>
                        iterators'[k].position = self.position + 1
                 /\ (it_last'.op = "__next__" /\ it_last'.it = k
                        /\ it_last'.raised) =>
                        /\ iterators'[k].has_sorted_items
                        /\ self.position = Len(iterators'[k].sorted_items)
          ]_allVars

\* A forward and a reverse iterator have both gone through the list
\* <<"B", "A">>, the reverse one last.
C15_Witness ==
    /\ collection = <<"B", "A">>
    /\ Len(iterators) = 2
    /\ iterators[1].sorted_items = <<"A", "B">>
    /\ iterators[1].position = 2
    /\ ~iterators[1].reverse
    /\ iterators[2].reverse
    /\ iterators[2].sorted_items = <<"B", "A">>
    /\ Traversed(2)

\* Iterator k has yielded the last item of its snapshot (or found the
\* collection empty on its first call).
AtEnd(k) ==
    /\ k \in Started
    /\ iterators[k].position = Len(iterators[k].sorted_items)

\* C16: the position of an iterator lies between 0 and the number of items
\* of its snapshot (0 while it has none); StopIteration is raised at the end
\* of the snapshot only; and once an iterator is at the end, every __next__
\* call on it raises StopIteration, and no call, add_item included, moves
\* its position.
C16_StopIterationAtEnd ==
    /\ [](/\ \A k \in 1..Len(iterators) :
               /\ 0 <= iterators[k].position
               /\ iterators[k].position <= Len(iterators[k].sorted_items)
               /\ k \notin Started => iterators[k].sorted_items = <<>>
          /\ (it_last.op = "__next__" /\ it_last.raised) =>
                 /\ it_last.ret = StopIteration
                 /\ AtEnd(it_last.it))
    /\ [][\A k \in 1..Len(iterators) :
             AtEnd(k) =>
                 /\ iterators'[k] = iterators[k]
                 /\ (it_last'.op = "__next__" /\ it_last'.it = k) =>
                        /\ it_last'.raised
                        /\ it_last'.ret = StopIteration
          ]_allVars

\* An iterator went through the one item of the collection and raised
\* StopIteration; then an item was added, and the next call on the iterator
\* has raised StopIteration again.
C16_Witness ==
    /\ Len(iterators) >= 1
    /\ AtEnd(1)
    /\ iterators[1].position = 1
    /\ Len(collection) = 2
    /\ it_last.op = "__next__"
    /\ it_last.it = 1
    /\ it_last.raised

C18_IndependentIterators ==
    [][/\ it_last'.op \in {"__iter__", "get_reverse_iterator"} =>
              /\ it_last'.ret = Len(iterators) + 1
              /\ Len(iterators') = Len(iterators) + 1
              /\ \A j \in 1..Len(iterators) : iterators'[j] = iterators[j]
              /\ iterators'[it_last'.ret].position = 0
              /\ ~iterators'[it_last'.ret].has_sorted_items
              /\ iterators'[it_last'.ret].reverse =
                     (it_last'.op = "get_reverse_iterator")
              /\ collection' = collection
       /\ Len(iterators') # Len(iterators) =>
              it_last'.op \in {"__iter__", "get_reverse_iterator"}
       /\ it_last'.op = "__next__" =>
              /\ Len(iterators') = Len(iterators)
              /\ \A j \in 1..Len(iterators) :
                     j # it_last'.it => iterators'[j] = iterators[j]
              /\ collection' = collection
      ]_allVars

\* Of two iterators over <<"B", "A">> the first has yielded "A" and "B";
\* then the second, created when both items were in the list, has yielded
\* its first item.
C18_Witness ==
    /\ collection = <<"B", "A">>
    /\ Len(iterators) = 2
    /\ iterators[2].born = 2
    /\ iterators[1].position = 2
    /\ iterators[1].sorted_items = <<"A", "B">>
    /\ iterators[2].position = 1
    /\ it_last.op = "__next__"
    /\ it_last.it = 2
    /\ ~it_last.raised

====
